---------------------------- MODULE Spec2Model ----------------------------
(***************************************************************************)
(* A model of utm.c: the conversion between geographic coordinates        *)
(* (latitude/longitude, degrees) and UTM coordinates (easting/northing,    *)
(* metres, with zone and hemisphere).                                      *)
(*                                                                         *)
(* The C code computes in IEEE doubles.  The model computes every formula  *)
(* of the source, operation by operation, in a binary floating point       *)
(* format of its own: a number is a record [m, e] that stands for          *)
(* m * 2^e, with a signed mantissa of 30 bits (2^29 <= |m| < 2^30) and an  *)
(* unbounded exponent; zero is [m |-> 0, e |-> 0].  Every operation rounds *)
(* its exact result to 30 bits, as the hardware rounds to 53.  The 30 bits *)
(* are what one machine integer of the checker holds.                      *)
(***************************************************************************)
EXTENDS Integers, Sequences, FiniteSets, TLC

-----------------------------------------------------------------------------
(* Floating point arithmetic: the C type double (reduced to 30 bits).      *)

Pow2(k) == 2 ^ k

Abs(n) == IF n < 0 THEN -n ELSE n

Sgn(n) == IF n < 0 THEN -1 ELSE IF n > 0 THEN 1 ELSE 0

\* The number of bits of n, 0 <= n < 2^31, by bisection: of n < 4, n < 16,
\* n < 256, n < 65536 and of any n.
BitLen2(n) == IF n >= 2 THEN 2 ELSE n

BitLen4(n) == IF n >= 4 THEN 2 + BitLen2(n \div 4) ELSE BitLen2(n)

BitLen8(n) == IF n >= 16 THEN 4 + BitLen4(n \div 16) ELSE BitLen4(n)

BitLen16(n) == IF n >= 256 THEN 8 + BitLen8(n \div 256) ELSE BitLen8(n)

BitLen(n) == IF n >= 65536 THEN 16 + BitLen16(n \div 65536) ELSE BitLen16(n)

Zero == [m |-> 0, e |-> 0]

\* s * r * 2^e for a 31-bit magnitude halved to r, r <= 2^30.
Round31(s, r, e) ==
  IF r = Pow2(30) THEN [m |-> s * Pow2(29), e |-> e + 2]
  ELSE [m |-> s * r, e |-> e + 1]

\* M * 2^e for M of bl bits.
NormTo(M, e, bl) ==
  IF bl <= 30 THEN [m |-> M * Pow2(30 - bl), e |-> e - (30 - bl)]
  ELSE Round31(Sgn(M), (Abs(M) \div 2) + (Abs(M) % 2), e)

\* The double nearest to M * 2^e, for any |M| < 2^31: the mantissa is
\* brought to 30 bits, a 31st bit rounded to nearest.
Norm(M, e) == IF M = 0 THEN Zero ELSE NormTo(M, e, BitLen(Abs(M)))

\* (double)n for an int n.
FromInt(n) == Norm(n, 0)

FNeg(a) == [m |-> -a.m, e |-> a.e]

\* |m| / 2^d rounded to nearest, with the sign of m; 0 <= d <= 30.
ShiftRight(m, d) ==
  IF d = 0 THEN m
  ELSE Sgn(m) * ((Abs(m) + Pow2(d - 1)) \div Pow2(d))

\* big + small, where big has the greater exponent.
AddAligned(big, small) ==
  IF big.e - small.e > 30 THEN big
  ELSE Norm(big.m + ShiftRight(small.m, big.e - small.e), big.e)

\* a + b.
FAdd(a, b) ==
  IF a.m = 0 THEN b
  ELSE IF b.m = 0 THEN a
  ELSE AddAligned(IF a.e >= b.e THEN a ELSE b, IF a.e >= b.e THEN b ELSE a)

\* a - b.
FSub(a, b) == FAdd(a, FNeg(b))

\* s * (q * 2^15 + rem) * 2^(e + 15), cut to the leading 31 bits of the
\* 59 or 60 bits of q * 2^15 + rem, rem < 2^15.
MulRound(s, q, rem, e) ==
  IF q >= Pow2(29) THEN Norm(s * (2 * q + (rem \div 16384)), e + 14)
  ELSE Norm(s * (4 * q + (rem \div 8192)), e + 13)

\* hh * 2^30 + t * 2^15, where t is the middle of the product.
MulSum(s, hh, t, e) == MulRound(s, hh + (t \div 32768), t % 32768, e)

\* The product of ah * 2^15 + al and bh * 2^15 + bl, without its last 15
\* bits.
MulHalves(s, ah, al, bh, bl, e) ==
  MulSum(s, ah * bh, (ah * bl + al * bh) + ((al * bl) \div 32768), e)

\* a * b: the 60-bit product of the mantissas from their 15-bit halves,
\* cut to its leading 31 bits and rounded.
FMul(a, b) ==
  IF a.m = 0 \/ b.m = 0 THEN Zero
  ELSE MulHalves(Sgn(a.m) * Sgn(b.m),
                 Abs(a.m) \div 32768, Abs(a.m) % 32768,
                 Abs(b.m) \div 32768, Abs(b.m) % 32768, a.e + b.e + 15)

\* Long division in base 2^15.  The digit d estimates the next 15 bits of
\* the quotient r / B (r < B, 2^29 <= B < 2^30) and is at most 2 too
\* large; rem is r * 2^15 - d * B.  The result is the digit q and the
\* remainder r that goes with it.
DigitFix(d, rem, B) ==
  IF rem >= 0 THEN [q |-> d, r |-> rem]
  ELSE IF rem + B >= 0 THEN [q |-> d - 1, r |-> rem + B]
  ELSE [q |-> d - 2, r |-> (rem + B) + B]

DigitEst(r, B, d) ==
  DigitFix(d, (r - d * (B \div 32768)) * 32768 - d * (B % 32768), B)

\* The estimate is r by the leading 15 bits of B, 2^15 - 1 at most.
Digit(r, B) ==
  DigitEst(r, B, IF r \div (B \div 32768) > 32767 THEN 32767
                 ELSE r \div (B \div 32768))

\* The 31 bits of a quotient: its leading 1, the digit d1 and the digit
\* that follows d1.
DivLow(d1, B) == (32768 + d1.q) * 32768 + Digit(d1.r, B).q

\* s * (A / B) * 2^e for 30-bit A and B: 31 bits of the quotient by long
\* division, rounded.  The quotient is in (1/2, 2), so that its leading 1
\* is the bit of 1 or of 1/2.
DivMant(s, A, B, e) ==
  IF A >= B THEN Norm(s * DivLow(Digit(A - B, B), B), e - 30)
  ELSE Norm(s * DivLow(Digit(2 * A - B, B), B), e - 31)

\* a / b, b # 0.
FDiv(a, b) ==
  IF a.m = 0 THEN Zero
  ELSE DivMant(Sgn(a.m) * Sgn(b.m), Abs(a.m), Abs(b.m), a.e - b.e)

\* a < b.
FLt(a, b) ==
  IF Sgn(a.m) # Sgn(b.m) THEN Sgn(a.m) < Sgn(b.m)
  ELSE IF a.m = 0 THEN FALSE
  ELSE IF a.m > 0 THEN a.e < b.e \/ (a.e = b.e /\ a.m < b.m)
  ELSE a.e > b.e \/ (a.e = b.e /\ a.m < b.m)

\* a <= b.
FLe(a, b) == ~FLt(b, a)

\* floor(a), as a double.
FFloor(a) ==
  IF a.e >= 0 THEN a
  ELSE IF -a.e > 30 THEN (IF a.m < 0 THEN FromInt(-1) ELSE Zero)
  ELSE FromInt(a.m \div Pow2(-a.e))

\* (int)a: the conversion of a double to int, which drops the fraction.
\* Defined for |a| < 2^30.
ToInt(a) ==
  IF a.e >= 0 THEN a.m * Pow2(a.e)
  ELSE IF -a.e > 30 THEN 0
  ELSE Sgn(a.m) * (Abs(a.m) \div Pow2(-a.e))

\* The decimal literal n / d (d a power of ten).
Dec(n, d) == FDiv(FromInt(n), FromInt(d))

One == [m |-> 536870912, e |-> -29]

Two == [m |-> 536870912, e |-> -28]

Half == [m |-> 536870912, e |-> -30]

\* pow(x, n) of math.h for the whole exponents 0 .. 8 the source uses.
RECURSIVE FPow(_, _)
FPow(x, n) ==
  IF n = 0 THEN One
  ELSE IF n = 1 THEN x
  ELSE IF n % 2 = 0 THEN FMul(FPow(x, n \div 2), FPow(x, n \div 2))
  ELSE FMul(FPow(x, n - 1), x)

\* One step of Newton's iteration for sqrt(a), n times.
RECURSIVE SqrtIter(_, _, _)
SqrtIter(a, x, n) ==
  IF x.m = 0 \/ n = 0 THEN x
  ELSE SqrtIter(a, FMul(Half, FAdd(x, FDiv(a, x))), n - 1)

\* sqrt(a) of math.h, a >= 0.
FSqrt(a) ==
  IF a.m = 0 THEN Zero
  ELSE SqrtIter(a, [m |-> 536870912, e |-> ((a.e + 30) \div 2) - 29], 6)

\* M_PI (src/utm.c:28), rounded to 30 bits.
M_PI == [m |-> 843314857, e |-> -28]

\* pi / 2 in three parts, for the reduction of an angle: k * PiO2_1 and
\* k * PiO2_2 are exact for |k| < 2^15.
PiO2_1 == [m |-> 25735 * 32768, e |-> -29]

PiO2_2 == [m |-> 30376 * 32768, e |-> -44]

PiO2_3 == [m |-> 571903011, e |-> -59]

TwoOverPi == [m |-> 683565276, e |-> -30]

\* The Taylor coefficients of sin(r) / r and of cos(r) in r^2, from the
\* second on, rounded to 30 bits: -1/3!, 1/5!, ..., 1/13! and -1/2!,
\* 1/4!, ..., 1/12!.
SinCoef ==
  << [m |-> -715827883, e |-> -32], [m |-> 572662306, e |-> -36],
     [m |-> -872628276, e |-> -42], [m |-> 775669579, e |-> -48],
     [m |-> -902597328, e |-> -55], [m |-> 740592679, e |-> -62] >>

CosCoef ==
  << [m |-> -536870912, e |-> -30], [m |-> 715827883, e |-> -34],
     [m |-> -763549742, e |-> -39], [m |-> 872628276, e |-> -45],
     [m |-> -620535663, e |-> -51], [m |-> 601731552, e |-> -58] >>

\* c[i] + z * c[i + 1].
Pair(z, c, i) == FAdd(c[i], FMul(z, c[i + 1]))

\* c[1] + z * c[2] + ... + z^5 * c[6], summed in pairs; zz is z * z.
Pairs(z, zz, c) ==
  FAdd(Pair(z, c, 1),
       FMul(zz, FAdd(Pair(z, c, 3), FMul(zz, Pair(z, c, 5)))))

\* 1 + z * (c[1] + z * c[2] + ... + z^5 * c[6]).
Poly(z, c) == FAdd(One, FMul(z, Pairs(z, FMul(z, z), c)))

\* The multiple of pi / 2 nearest to x, and what is left of x beyond k
\* times pi / 2.
Quadrant(x) == FFloor(FAdd(FMul(x, TwoOverPi), Half))

Reduced(x, k) ==
  FSub(FSub(FSub(x, FMul(k, PiO2_1)), FMul(k, PiO2_2)), FMul(k, PiO2_3))

\* sin(r + q * pi / 2) for |r| <= pi / 4 and q in 0 .. 3: sin(r), cos(r),
\* -sin(r), -cos(r).
SinShifted(r, q) ==
  IF r.m = 0 THEN (IF q % 2 = 0 THEN Zero
                   ELSE IF q = 1 THEN One ELSE FNeg(One))
  ELSE FMul(IF q % 2 = 0 THEN (IF q = 0 THEN r ELSE FNeg(r))
            ELSE (IF q = 1 THEN One ELSE FNeg(One)),
            Poly(FMul(r, r), IF q % 2 = 0 THEN SinCoef ELSE CosCoef))

\* sin(x), cos(x), tan(x) of math.h.
\* sin(x + j * pi / 2), where k is the multiple of pi / 2 nearest to x.
SinAt(x, k, j) == SinShifted(Reduced(x, k), (ToInt(k) + j) % 4)

FSin(x) == SinAt(x, Quadrant(x), 0)

FCos(x) == SinAt(x, Quadrant(x), 1)

FTan(x) == FDiv(FSin(x), FCos(x))

-----------------------------------------------------------------------------
(* utm.c                                                                   *)

\* Ellipsoid model constants (WGS84).
sm_a == FromInt(6378137)

sm_b == FAdd(FromInt(6356752), Dec(314, 1000))

utm_scale_factor == Dec(9996, 10000)

deg_to_rad(deg) == FMul(FDiv(deg, FromInt(180)), M_PI)

rad_to_deg(rad) == FMul(FDiv(rad, M_PI), FromInt(180))

\* n = (sm_a - sm_b) / (sm_a + sm_b)
EllipsoidN == FDiv(FSub(sm_a, sm_b), FAdd(sm_a, sm_b))

\* The locals alpha, beta, gamma, delta and epsilon of
\* arc_length_of_meridian.
ArcCoefs(n) ==
  [ alpha   |-> FMul(FDiv(FAdd(sm_a, sm_b), Two),
                     FAdd(FAdd(One, FDiv(FPow(n, 2), FromInt(4))),
                          FDiv(FPow(n, 4), FromInt(64)))),
    beta    |-> FAdd(FAdd(FDiv(FMul(FromInt(-3), n), Two),
                          FDiv(FMul(FromInt(9), FPow(n, 3)), FromInt(16))),
                     FDiv(FMul(FromInt(-3), FPow(n, 5)), FromInt(32))),
    gamma   |-> FAdd(FDiv(FMul(FromInt(15), FPow(n, 2)), FromInt(16)),
                     FDiv(FMul(FromInt(-15), FPow(n, 4)), FromInt(32))),
    delta   |-> FAdd(FDiv(FMul(FromInt(-35), FPow(n, 3)), FromInt(48)),
                     FDiv(FMul(FromInt(105), FPow(n, 5)), FromInt(256))),
    epsilon |-> FDiv(FMul(FromInt(315), FPow(n, 4)), FromInt(512)) ]

\* phi + beta sin(2 phi) + gamma sin(4 phi) + delta sin(6 phi)
\*     + epsilon sin(8 phi)
SineSeries(phi, k) ==
  FAdd(FAdd(FAdd(FAdd(phi,
    FMul(k.beta, FSin(FMul(Two, phi)))),
    FMul(k.gamma, FSin(FMul(FromInt(4), phi)))),
    FMul(k.delta, FSin(FMul(FromInt(6), phi)))),
    FMul(k.epsilon, FSin(FMul(FromInt(8), phi))))

\* The ellipsoidal distance from the equator to latitude phi (radians).
ArcLength(phi, k) == FMul(k.alpha, SineSeries(phi, k))

arc_length_of_meridian(phi) == ArcLength(phi, ArcCoefs(EllipsoidN))

\* A faulty utm_central_meridian: the meridian 3 degrees east of the
\* central one (-180 for -183).
utm_central_meridian_shifted(zone) ==
  deg_to_rad(FAdd(FromInt(-180), FromInt(6 * zone)))

\* The central meridian of a UTM zone, in radians.
utm_central_meridian(zone) ==
  deg_to_rad(FAdd(FromInt(-183), FromInt(6 * zone)))

\* The locals alpha_, beta_, gamma_, delta_ and epsilon_ of
\* footpoint_latitude.
FootCoefs(n) ==
  [ alpha   |-> FMul(FDiv(FAdd(sm_a, sm_b), Two),
                     FAdd(FAdd(One, FDiv(FPow(n, 2), FromInt(4))),
                          FDiv(FPow(n, 4), FromInt(64)))),
    beta    |-> FAdd(FAdd(FDiv(FMul(FromInt(3), n), Two),
                          FDiv(FMul(FromInt(-27), FPow(n, 3)), FromInt(32))),
                     FDiv(FMul(FromInt(269), FPow(n, 5)), FromInt(512))),
    gamma   |-> FAdd(FDiv(FMul(FromInt(21), FPow(n, 2)), FromInt(16)),
                     FDiv(FMul(FromInt(-55), FPow(n, 4)), FromInt(32))),
    delta   |-> FAdd(FDiv(FMul(FromInt(151), FPow(n, 3)), FromInt(96)),
                     FDiv(FMul(FromInt(-417), FPow(n, 5)), FromInt(128))),
    epsilon |-> FDiv(FMul(FromInt(1097), FPow(n, 4)), FromInt(512)) ]

\* y_ = y / alpha_, then the series in y_.
Footpoint(y, k) == SineSeries(FDiv(y, k.alpha), k)

\* The footpoint latitude of the Transverse Mercator northing y.
footpoint_latitude(y) == Footpoint(y, FootCoefs(EllipsoidN))

\* ep2 = (sm_a^2 - sm_b^2) / sm_b^2
EllipsoidEp2 ==
  FDiv(FSub(FPow(sm_a, 2), FPow(sm_b, 2)), FPow(sm_b, 2))

\* N = sm_a^2 / (sm_b * sqrt(1 + nu2))
CurvatureN(nu2) == FDiv(FPow(sm_a, 2), FMul(sm_b, FSqrt(FAdd(One, nu2))))

\* The locals of map_lat_lon_to_xy, in the order of their declarations:
\* first cos(phi), t and l,
XYAngles(phi, lambda, lambda0) ==
  [c |-> FCos(phi), t |-> FTan(phi), l |-> FSub(lambda, lambda0)]

\* then nu2 and t2,
XYSquares(a) ==
  [c |-> a.c, t |-> a.t, l |-> a.l,
   nu2 |-> FMul(EllipsoidEp2, FPow(a.c, 2)), t2 |-> FMul(a.t, a.t)]

\* then N and the coefficients of the powers of l.
XYCoefs(b) ==
  [ c |-> b.c, t |-> b.t, l |-> b.l,
    N |-> CurvatureN(b.nu2),
    l3coef |-> FAdd(FSub(One, b.t2), b.nu2),
    l4coef |-> FAdd(FAdd(FSub(FromInt(5), b.t2), FMul(FromInt(9), b.nu2)),
                    FMul(FromInt(4), FMul(b.nu2, b.nu2))),
    l5coef |-> FSub(FAdd(FAdd(FSub(FromInt(5), FMul(FromInt(18), b.t2)),
                              FMul(b.t2, b.t2)),
                         FMul(FromInt(14), b.nu2)),
                    FMul(FMul(FromInt(58), b.t2), b.nu2)),
    l6coef |-> FSub(FAdd(FAdd(FSub(FromInt(61), FMul(FromInt(58), b.t2)),
                              FMul(b.t2, b.t2)),
                         FMul(FromInt(270), b.nu2)),
                    FMul(FMul(FromInt(330), b.t2), b.nu2)),
    l7coef |-> FSub(FAdd(FSub(FromInt(61), FMul(FromInt(479), b.t2)),
                         FMul(FromInt(179), FMul(b.t2, b.t2))),
                    FMul(FMul(b.t2, b.t2), b.t2)),
    l8coef |-> FSub(FAdd(FSub(FromInt(1385), FMul(FromInt(3111), b.t2)),
                         FMul(FromInt(543), FMul(b.t2, b.t2))),
                    FMul(FMul(b.t2, b.t2), b.t2)) ]

\* *x, the easting.
XYEasting(d) ==
  FAdd(FAdd(FAdd(
    FMul(FMul(d.N, d.c), d.l),
    FMul(FMul(FMul(FDiv(d.N, FromInt(6)), FPow(d.c, 3)), d.l3coef),
         FPow(d.l, 3))),
    FMul(FMul(FMul(FDiv(d.N, FromInt(120)), FPow(d.c, 5)), d.l5coef),
         FPow(d.l, 5))),
    FMul(FMul(FMul(FDiv(d.N, FromInt(5040)), FPow(d.c, 7)), d.l7coef),
         FPow(d.l, 7)))

\* *y, the northing.
XYNorthing(phi, d) ==
  FAdd(FAdd(FAdd(FAdd(
    arc_length_of_meridian(phi),
    FMul(FMul(FMul(FDiv(d.t, Two), d.N), FPow(d.c, 2)), FPow(d.l, 2))),
    FMul(FMul(FMul(FMul(FDiv(d.t, FromInt(24)), d.N), FPow(d.c, 4)),
              d.l4coef), FPow(d.l, 4))),
    FMul(FMul(FMul(FMul(FDiv(d.t, FromInt(720)), d.N), FPow(d.c, 6)),
              d.l6coef), FPow(d.l, 6))),
    FMul(FMul(FMul(FMul(FDiv(d.t, FromInt(40320)), d.N), FPow(d.c, 8)),
              d.l8coef), FPow(d.l, 8)))

XYResult(phi, d) == [x |-> XYEasting(d), y |-> XYNorthing(phi, d)]

\* Latitude phi and longitude lambda (radians) to x and y in the
\* Transverse Mercator projection of central meridian lambda0.
map_lat_lon_to_xy(phi, lambda, lambda0) ==
  XYResult(phi, XYCoefs(XYSquares(XYAngles(phi, lambda, lambda0))))

\* The locals of map_xy_to_lat_lon, in the order of their declarations:
\* first phif, cf and tf,
LLAngles(phif) == [phif |-> phif, cf |-> FCos(phif), tf |-> FTan(phif)]

\* then nuf2 and tf2,
LLSquares(a) ==
  [phif |-> a.phif, cf |-> a.cf, tf |-> a.tf,
   nuf2 |-> FMul(EllipsoidEp2, FPow(a.cf, 2)), tf2 |-> FMul(a.tf, a.tf)]

\* then Nf and tf4.
LLCurvature(b) ==
  [phif |-> b.phif, cf |-> b.cf, tf |-> b.tf, nuf2 |-> b.nuf2,
   tf2 |-> b.tf2, Nf |-> CurvatureN(b.nuf2), tf4 |-> FMul(b.tf2, b.tf2)]

\* Nfpow after it was multiplied by Nf k - 1 times: Nf^k.
RECURSIVE Nfpow(_, _)
Nfpow(Nf, k) == IF k = 1 THEN Nf ELSE FMul(Nfpow(Nf, k - 1), Nf)

\* The fractional and the polynomial coefficients of the powers of x.
LLCoefs(c) ==
  [ phif   |-> c.phif,
    x1frac |-> FDiv(One, FMul(Nfpow(c.Nf, 1), c.cf)),
    x2frac |-> FDiv(c.tf, FMul(Two, Nfpow(c.Nf, 2))),
    x3frac |-> FDiv(One, FMul(FMul(FromInt(6), Nfpow(c.Nf, 3)), c.cf)),
    x4frac |-> FDiv(c.tf, FMul(FromInt(24), Nfpow(c.Nf, 4))),
    x5frac |-> FDiv(One, FMul(FMul(FromInt(120), Nfpow(c.Nf, 5)), c.cf)),
    x6frac |-> FDiv(c.tf, FMul(FromInt(720), Nfpow(c.Nf, 6))),
    x7frac |-> FDiv(One, FMul(FMul(FromInt(5040), Nfpow(c.Nf, 7)), c.cf)),
    x8frac |-> FDiv(c.tf, FMul(FromInt(40320), Nfpow(c.Nf, 8))),
    x2poly |-> FSub(FromInt(-1), c.nuf2),
    x3poly |-> FSub(FSub(FromInt(-1), FMul(Two, c.tf2)), c.nuf2),
    x4poly |-> FSub(FSub(FSub(FAdd(FAdd(FromInt(5),
                                        FMul(FromInt(3), c.tf2)),
                                   FMul(FromInt(6), c.nuf2)),
                              FMul(FMul(FromInt(6), c.tf2), c.nuf2)),
                         FMul(FromInt(3), FMul(c.nuf2, c.nuf2))),
                    FMul(FMul(FromInt(9), c.tf2), FMul(c.nuf2, c.nuf2))),
    x5poly |-> FAdd(FAdd(FAdd(FAdd(FromInt(5), FMul(FromInt(28), c.tf2)),
                              FMul(FromInt(24), c.tf4)),
                         FMul(FromInt(6), c.nuf2)),
                    FMul(FMul(FromInt(8), c.tf2), c.nuf2)),
    x6poly |-> FAdd(FSub(FSub(FSub(FromInt(-61), FMul(FromInt(90), c.tf2)),
                              FMul(FromInt(45), c.tf4)),
                         FMul(FromInt(107), c.nuf2)),
                    FMul(FMul(FromInt(162), c.tf2), c.nuf2)),
    x7poly |-> FSub(FSub(FSub(FromInt(-61), FMul(FromInt(662), c.tf2)),
                         FMul(FromInt(1320), c.tf4)),
                    FMul(FromInt(720), FMul(c.tf4, c.tf2))),
    x8poly |-> FAdd(FAdd(FAdd(FromInt(1385), FMul(FromInt(3633), c.tf2)),
                         FMul(FromInt(4095), c.tf4)),
                    FMul(FromInt(1575), FMul(c.tf4, c.tf2))) ]

\* *phi, the latitude.
LLLatitude(x, d) ==
  FAdd(FAdd(FAdd(FAdd(d.phif,
    FMul(FMul(d.x2frac, d.x2poly), FMul(x, x))),
    FMul(FMul(d.x4frac, d.x4poly), FPow(x, 4))),
    FMul(FMul(d.x6frac, d.x6poly), FPow(x, 6))),
    FMul(FMul(d.x8frac, d.x8poly), FPow(x, 8)))

\* *lambda, the longitude.
LLLongitude(x, lambda0, d) ==
  FAdd(FAdd(FAdd(FAdd(lambda0,
    FMul(d.x1frac, x)),
    FMul(FMul(d.x3frac, d.x3poly), FPow(x, 3))),
    FMul(FMul(d.x5frac, d.x5poly), FPow(x, 5))),
    FMul(FMul(d.x7frac, d.x7poly), FPow(x, 7)))

LLResult(x, lambda0, d) ==
  [phi |-> LLLatitude(x, d), lambda |-> LLLongitude(x, lambda0, d)]

\* x and y in the Transverse Mercator projection of central meridian
\* lambda0 to latitude phi and longitude lambda (radians).
map_xy_to_lat_lon(x, y, lambda0) ==
  LLResult(x, lambda0,
           LLCoefs(LLCurvature(LLSquares(LLAngles(footpoint_latitude(y))))))

\* A null pointer.
NULL == "NULL"

\* A faulty AutoZone: zones counted from 0 (the + 1 is left out).
AutoZoneFromZero(lon_deg) ==
  ToInt(FFloor(FDiv(FAdd(lon_deg, FromInt(180)), FromInt(6))))

\* zone_ = floor((lon + 180.0) / 6.0) + 1, converted to int.
AutoZone(lon_deg) ==
  ToInt(FAdd(FFloor(FDiv(FAdd(lon_deg, FromInt(180)), FromInt(6))), One))

\* A faulty ZoneInvalid: zone 0 passes (zone_ < 0 for zone_ < 1).
ZoneInvalidBelowZero(zone_) == zone_ < 0 \/ zone_ > 60

\* zone_ < 1 || zone_ > 60
ZoneInvalid(zone_) == zone_ < 1 \/ zone_ > 60

\* *x = *x * utm_scale_factor + 500000.0
UtmEasting(xtm) == FAdd(FMul(xtm, utm_scale_factor), FromInt(500000))

\* A faulty AddFalseNorthing: <= for <, so that the equator gets the
\* false northing too.
AddFalseNorthingAtZero(y1) ==
  IF FLe(y1, Zero) THEN FAdd(y1, FromInt(10000000)) ELSE y1

\* if (*y < 0.0) *y = *y + 10000000.0
AddFalseNorthing(y1) ==
  IF FLt(y1, Zero) THEN FAdd(y1, FromInt(10000000)) ELSE y1

\* A faulty UtmNorthing: the false northing is forgotten.
UtmNorthingUnshifted(ytm) == FMul(ytm, utm_scale_factor)

\* *y = *y * utm_scale_factor, then the false northing.
UtmNorthing(ytm) == AddFalseNorthing(FMul(ytm, utm_scale_factor))

\* A faulty ZoneOf: the caller's zone is ignored.
ZoneOfLonOnly(lon_deg, zone, zone_val) == AutoZone(lon_deg)

\* The local zone_: the zone chosen from lon if zone is NULL, else *zone.
ZoneOf(lon_deg, zone, zone_val) ==
  IF zone = NULL THEN AutoZone(lon_deg) ELSE zone_val

\* The end of lat_lon_to_utm: tm is what map_lat_lon_to_xy stored in *x
\* and *y.
StoreUtm(zone_, tm, x, y, mem) ==
  [ret |-> zone_,
   mem |-> [mem EXCEPT ![x] = UtmEasting(tm.x), ![y] = UtmNorthing(tm.y)],
   zone_ |-> zone_, x_tm |-> tm.x, y_tm |-> tm.y]

\* A faulty ToUtm: the conversion runs and stores its results before
\* zone_ is checked.
ToUtmStoreFirst(lat_deg, lon_deg, zone_, x, y, mem) ==
  [ StoreUtm(zone_,
             map_lat_lon_to_xy(deg_to_rad(lat_deg), deg_to_rad(lon_deg),
                               utm_central_meridian(zone_)),
             x, y, mem)
    EXCEPT !.ret = IF ZoneInvalid(zone_) THEN -1 ELSE zone_ ]

\* lat_lon_to_utm from the check of zone_ on.
ToUtm(lat_deg, lon_deg, zone_, x, y, mem) ==
  IF ZoneInvalid(zone_) THEN [ret |-> -1, mem |-> mem, zone_ |-> zone_]
  ELSE StoreUtm(zone_,
                map_lat_lon_to_xy(deg_to_rad(lat_deg), deg_to_rad(lon_deg),
                                  utm_central_meridian(zone_)),
                x, y, mem)

\* A faulty lat_lon_to_utm: zone_ is set before x and y are checked.
lat_lon_to_utm_zone_first(lat_deg, lon_deg, zone, zone_val, x, y, mem) ==
  IF x = NULL \/ y = NULL
    THEN [ret |-> -1, mem |-> mem,
          zone_ |-> ZoneOf(lon_deg, zone, zone_val)]
    ELSE ToUtm(lat_deg, lon_deg, ZoneOf(lon_deg, zone, zone_val), x, y, mem)

\* lat_lon_to_utm(lat, lon, zone, x, y) on the memory mem.  zone, x and y
\* are pointers (NULL or the name of the cell pointed to); zone_val is
\* *zone.  The result is the return value, the memory afterwards and the
\* locals the call came to set: zone_ and, when the conversion ran, what
\* map_lat_lon_to_xy stored in *x and *y.
lat_lon_to_utm(lat_deg, lon_deg, zone, zone_val, x, y, mem) ==
  IF x = NULL \/ y = NULL THEN [ret |-> -1, mem |-> mem]
  ELSE ToUtm(lat_deg, lon_deg, ZoneOf(lon_deg, zone, zone_val), x, y, mem)

\* x -= 500000.0; x /= utm_scale_factor
TmX(x) == FDiv(FSub(x, FromInt(500000)), utm_scale_factor)

\* A faulty TmY: y is divided by the scale factor before the false
\* northing is subtracted.
TmYScaledFirst(y, southhemi) ==
  IF southhemi > 0
    THEN FSub(FDiv(y, utm_scale_factor), FromInt(10000000))
    ELSE FDiv(y, utm_scale_factor)

\* if (southhemi > 0) y -= 10000000.0; y /= utm_scale_factor
TmY(y, southhemi) ==
  FDiv(IF southhemi > 0 THEN FSub(y, FromInt(10000000)) ELSE y,
       utm_scale_factor)

\* The end of utm_to_lat_lon: g is what map_xy_to_lat_lon stored in *lat
\* and *lon.
StoreLatLon(x_tm, y_tm, cmeridian, g, lat, lon, mem) ==
  [ret |-> 0,
   mem |-> [mem EXCEPT ![lat] = rad_to_deg(g.phi),
                       ![lon] = rad_to_deg(g.lambda)],
   x_tm |-> x_tm, y_tm |-> y_tm, cmeridian |-> cmeridian]

\* utm_to_lat_lon from the call of map_xy_to_lat_lon on.
FromTm(x_tm, y_tm, cmeridian, lat, lon, mem) ==
  StoreLatLon(x_tm, y_tm, cmeridian,
              map_xy_to_lat_lon(x_tm, y_tm, cmeridian), lat, lon, mem)

\* A faulty utm_to_lat_lon: it rejects the zones lat_lon_to_utm rejects.
utm_to_lat_lon_zone_checked(x, y, zone, southhemi, lat, lon, mem) ==
  IF lat = NULL \/ lon = NULL \/ ZoneInvalid(zone)
    THEN [ret |-> -1, mem |-> mem]
    ELSE FromTm(TmX(x), TmY(y, southhemi), utm_central_meridian(zone),
                lat, lon, mem)

\* utm_to_lat_lon(x, y, zone, southhemi, lat, lon) on the memory mem; lat
\* and lon are pointers.  The result is the return value, the memory
\* afterwards and, when the conversion ran, the arguments it gave to
\* map_xy_to_lat_lon.
utm_to_lat_lon(x, y, zone, southhemi, lat, lon, mem) ==
  IF lat = NULL \/ lon = NULL THEN [ret |-> -1, mem |-> mem]
  ELSE FromTm(TmX(x), TmY(y, southhemi), utm_central_meridian(zone),
              lat, lon, mem)

-----------------------------------------------------------------------------
(* The callers: test.c                                                     *)

\* The latitudes are 45 degrees apart and reach LatSteps steps from the
\* equator (past the poles: the code checks no latitude), the longitudes
\* 45 degrees apart and LonSteps steps from Greenwich.
LatSteps == 3

LonSteps == 4

\* How many different contents a caller's uninitialized doubles may have.
JunkKinds == 2

LatGrid == { FromInt(45 * i) : i \in -LatSteps .. LatSteps }

LonGrid == { FromInt(45 * j) : j \in -LonSteps .. LonSteps }

\* Points of test_lat_lon_to_utm_nozone and test_lat_lon_to_utm_invalid.
TestPoints ==
  { <<Dec(-28234982, 1000000), Dec(79293801, 1000000)>>,
    <<Dec(89123980, 1000000), Dec(1238790, 1000000)>>,
    <<Dec(129899, 1000000), Dec(-178129381, 1000000)>> }

\* Points on the central meridians of the first and the last zone.
MeridianPoints == LatGrid \X {FromInt(-177), FromInt(177)}

\* -2^-60: a longitude west of the prime meridian by less than half an
\* ulp of 180.0, so that lon + 180.0 is 180.0.
JustWestOfGreenwich == [m |-> -536870912, e |-> -89]

\* Points next to a zone boundary.
BoundaryPoints == {FromInt(-30), FromInt(10)} \X {JustWestOfGreenwich}

Points ==
  (LatGrid \X LonGrid) \cup MeridianPoints \cup TestPoints
    \cup BoundaryPoints

\* Values of the caller's int zone: those of the tests at the ends of the
\* range, the ends themselves and their neighbours.
ZoneArgs == {0, 1, 8, 53, 60, 61}

\* Eastings and northings of test_utm_to_lat_lon_n and _s.
TestUtmPoints ==
  { <<FromInt(234000), FromInt(712398)>>,
    <<FromInt(364980), FromInt(1239888)>>,
    <<FromInt(801239), FromInt(8102939)>>,
    <<FromInt(355987), FromInt(3451980)>> }

UtmZoneArgs == {-1, 0, 1, 6, 24, 60, 61}

SouthHemiArgs == {-1, 0, 1, 2}

\* The caller's doubles.
Cells == {"easting", "northing", "lat", "lon"}

\* The caller's doubles before anything was stored in them.
Junk(g) == [c \in Cells |-> FromInt(-g)]

VARIABLES
  mem,    \* the caller's doubles easting, northing, lat and lon (with
          \* threads: those of every thread)
  call,   \* the last call: its function, arguments and return value
          \* (with threads: the frame of every thread's call)
  prev    \* the call before it (with threads: every thread's doubles
          \* as its last call left them)

vars == <<mem, call, prev>>

NoCall == [fn |-> "none"]

\* What a call leaves in the caller's frame besides the memory: its return
\* value and the locals the functions above report.
Outcome(r) == [f \in (DOMAIN r) \ {"mem"} |-> r[f]]

Init ==
  /\ mem \in { Junk(g) : g \in 1 .. JunkKinds }
  /\ call = NoCall
  /\ prev = NoCall

\* A test function is entered: its doubles are uninitialized.
TestEntry ==
  /\ call.fn # "none"
  /\ mem' \in { Junk(g) : g \in 1 .. JunkKinds }
  /\ call' = NoCall
  /\ prev' = NoCall

\* The test calls lat_lon_to_utm.
LatLonToUtm ==
  /\ call.fn = "none"
  /\ \E p \in Points, zone \in {NULL, "zone"}, zone_val \in ZoneArgs,
        x \in {NULL, "easting"}, y \in {NULL, "northing"} :
       /\ zone = NULL => zone_val = 0
       /\ \E r \in {lat_lon_to_utm(p[1], p[2], zone, zone_val, x, y, mem)} :
            /\ mem' = r.mem
            /\ call' = [fn |-> "lat_lon_to_utm", lat |-> p[1],
                        lon |-> p[2], zone |-> zone,
                        zone_val |-> zone_val, x |-> x, y |-> y]
                         @@ Outcome(r)
       /\ prev' = call

\* The test calls utm_to_lat_lon.
UtmToLatLon ==
  /\ call.fn = "none"
  /\ \E p \in TestUtmPoints, zone \in UtmZoneArgs,
        southhemi \in SouthHemiArgs,
        lat \in {NULL, "lat"}, lon \in {NULL, "lon"} :
       \E r \in {utm_to_lat_lon(p[1], p[2], zone, southhemi, lat, lon, mem)} :
           /\ mem' = r.mem
           /\ call' = [fn |-> "utm_to_lat_lon", x |-> p[1], y |-> p[2],
                       zone |-> zone, southhemi |-> southhemi,
                       lat |-> lat, lon |-> lon] @@ Outcome(r)
  /\ prev' = call

\* The round trip: the test converts the result of its successful
\* lat_lon_to_utm with the zone chosen from lon back, with the zone that
\* call returned.
ConvertBack ==
  /\ call.fn = "lat_lon_to_utm"
  /\ call.zone = NULL
  /\ call.ret # -1
  /\ \E southhemi \in {0, 1} :
       \E r \in {utm_to_lat_lon(mem["easting"], mem["northing"], call.ret,
                                 southhemi, "lat", "lon", mem)} :
           /\ mem' = r.mem
           /\ call' = [fn |-> "utm_to_lat_lon", x |-> mem["easting"],
                       y |-> mem["northing"], zone |-> call.ret,
                       southhemi |-> southhemi, lat |-> "lat",
                       lon |-> "lon"] @@ Outcome(r)
  /\ prev' = call

Next == TestEntry \/ LatLonToUtm \/ UtmToLatLon \/ ConvertBack

Spec == Init /\ [][Next]_vars

-----------------------------------------------------------------------------
(* Threads calling lat_lon_to_utm and utm_to_lat_lon at the same time,     *)
(* statement by statement.                                                  *)

\* How many threads call the library.
NumThreads == 2

Threads == 1 .. NumThreads

\* The doubles of the process: easting, northing, lat and lon of every
\* thread and, under 0, doubles that belong to no caller.
Doubles == (0 .. NumThreads) \X Cells

\* The double of thread t that its pointer p points to.
Slot(t, p) == <<t, p>>

\* A faulty Intermediate: a double shared by all calls, as a static
\* buffer of the library would be.
IntermediateStatic(t, p) == <<0, p>>

\* Where a coordinate is kept between map_lat_lon_to_xy (or
\* map_xy_to_lat_lon) and its adjustment: in *x and *y (*lat and *lon)
\* of the caller.
Intermediate(t, p) == Slot(t, p)

\* The doubles of thread t.
Own(t) == [c \in Cells |-> mem[Slot(t, c)]]

\* The points the threads convert: a test point of the southern
\* hemisphere and one of the northern.
ThreadPoints ==
  { <<Dec(-28234982, 1000000), Dec(79293801, 1000000)>>,
    <<Dec(89123980, 1000000), Dec(1238790, 1000000)>> }

\* The arguments of the threads' calls of lat_lon_to_utm: no zone or the
\* zone 61, the easting slot null or not.
ThreadForwardArgs ==
  { [lat |-> p[1], lon |-> p[2], zone |-> z[1], zone_val |-> z[2],
     x |-> x, y |-> "northing"] :
      p \in ThreadPoints, z \in {<<NULL, 0>>, <<"zone", 61>>},
      x \in {NULL, "easting"} }

\* The arguments of the threads' calls of utm_to_lat_lon.
ThreadInverseArgs ==
  { [x |-> FromInt(801239), y |-> FromInt(8102939), zone |-> 24,
     southhemi |-> 1, lat |-> lat, lon |-> "lon"] :
      lat \in {NULL, "lat"} }

\* The frame of a thread that is not in a call.
Idle == [pc |-> "idle", fn |-> "none"]

\* The frame f at return with the value ret.
Returned(f, ret) == [ret |-> ret] @@ [f EXCEPT !.pc = "returned"]

\* if (zone_ < 1 || zone_ > 60) return -1;
ForwardZoned(f) ==
  IF ZoneInvalid(f.zone_) THEN Returned(f, -1) ELSE [f EXCEPT !.pc = "map"]

\* if (!x || !y) return -1; then zone_ is set.
ForwardChecked(f) ==
  IF f.x = NULL \/ f.y = NULL THEN Returned(f, -1)
  ELSE ForwardZoned([zone_ |-> ZoneOf(f.lon, f.zone, f.zone_val)] @@ f)

\* if (!lat || !lon) return -1; then the locals x, y and cmeridian.
InverseChecked(f) ==
  IF f.lat = NULL \/ f.lon = NULL THEN Returned(f, -1)
  ELSE [x_tm |-> TmX(f.x), y_tm |-> TmY(f.y, f.southhemi),
        cmeridian |-> utm_central_meridian(f.zone)]
         @@ [f EXCEPT !.pc = "map"]

ThreadsInit ==
  /\ mem = [d \in Doubles |-> Junk(1)[d[2]]]
  /\ call = [t \in Threads |-> Idle]
  /\ prev = [t \in Threads |-> Junk(1)]

\* A thread calls lat_lon_to_utm.
CallForward ==
  \E t \in Threads, a \in ThreadForwardArgs :
    /\ call[t].pc = "idle"
    /\ call' = [call EXCEPT
                  ![t] = [pc |-> "check", fn |-> "lat_lon_to_utm"] @@ a]
    /\ UNCHANGED <<mem, prev>>

\* A thread calls utm_to_lat_lon.
CallInverse ==
  \E t \in Threads, a \in ThreadInverseArgs :
    /\ call[t].pc = "idle"
    /\ call' = [call EXCEPT
                  ![t] = [pc |-> "check", fn |-> "utm_to_lat_lon"] @@ a]
    /\ UNCHANGED <<mem, prev>>

\* lat_lon_to_utm up to the call of map_lat_lon_to_xy.
ForwardCheck ==
  \E t \in Threads :
    /\ call[t].pc = "check"
    /\ call[t].fn = "lat_lon_to_utm"
    /\ call' = [call EXCEPT ![t] = ForwardChecked(@)]
    /\ UNCHANGED <<mem, prev>>

\* map_lat_lon_to_xy stores through x and y.
ForwardMap ==
  \E t \in Threads :
    /\ call[t].pc = "map"
    /\ call[t].fn = "lat_lon_to_utm"
    /\ \E tm \in { map_lat_lon_to_xy(deg_to_rad(call[t].lat),
                                     deg_to_rad(call[t].lon),
                                     utm_central_meridian(call[t].zone_)) } :
         mem' = [mem EXCEPT ![Intermediate(t, call[t].x)] = tm.x,
                            ![Intermediate(t, call[t].y)] = tm.y]
    /\ call' = [call EXCEPT ![t].pc = "easting"]
    /\ UNCHANGED prev

\* *x = *x * utm_scale_factor + 500000.0;
ForwardEasting ==
  \E t \in Threads :
    /\ call[t].pc = "easting"
    /\ mem' = [mem EXCEPT ![Slot(t, call[t].x)] =
                            UtmEasting(mem[Intermediate(t, call[t].x)])]
    /\ call' = [call EXCEPT ![t].pc = "northing"]
    /\ UNCHANGED prev

\* *y = *y * utm_scale_factor; the false northing; return zone_;
ForwardNorthing ==
  \E t \in Threads :
    /\ call[t].pc = "northing"
    /\ mem' = [mem EXCEPT ![Slot(t, call[t].y)] =
                            UtmNorthing(mem[Intermediate(t, call[t].y)])]
    /\ call' = [call EXCEPT ![t] = Returned(@, @.zone_)]
    /\ UNCHANGED prev

\* utm_to_lat_lon up to the call of map_xy_to_lat_lon.
InverseCheck ==
  \E t \in Threads :
    /\ call[t].pc = "check"
    /\ call[t].fn = "utm_to_lat_lon"
    /\ call' = [call EXCEPT ![t] = InverseChecked(@)]
    /\ UNCHANGED <<mem, prev>>

\* map_xy_to_lat_lon stores through lat and lon.
InverseMap ==
  \E t \in Threads :
    /\ call[t].pc = "map"
    /\ call[t].fn = "utm_to_lat_lon"
    /\ \E g \in { map_xy_to_lat_lon(call[t].x_tm, call[t].y_tm,
                                    call[t].cmeridian) } :
         mem' = [mem EXCEPT ![Intermediate(t, call[t].lat)] = g.phi,
                            ![Intermediate(t, call[t].lon)] = g.lambda]
    /\ call' = [call EXCEPT ![t].pc = "degrees"]
    /\ UNCHANGED prev

\* *lat = rad_to_deg(*lat); *lon = rad_to_deg(*lon); return 0;
InverseDegrees ==
  \E t \in Threads :
    /\ call[t].pc = "degrees"
    /\ mem' = [mem EXCEPT
                 ![Slot(t, call[t].lat)] =
                   rad_to_deg(mem[Intermediate(t, call[t].lat)]),
                 ![Slot(t, call[t].lon)] =
                   rad_to_deg(mem[Intermediate(t, call[t].lon)])]
    /\ call' = [call EXCEPT ![t] = Returned(@, 0)]
    /\ UNCHANGED prev

\* The caller takes the result; its doubles stay as the call left them.
ThreadReturn ==
  \E t \in Threads :
    /\ call[t].pc = "returned"
    /\ call' = [call EXCEPT ![t] = Idle]
    /\ prev' = [prev EXCEPT ![t] = Own(t)]
    /\ UNCHANGED mem

ThreadsNext ==
  \/ CallForward
  \/ CallInverse
  \/ ForwardCheck
  \/ ForwardMap
  \/ ForwardEasting
  \/ ForwardNorthing
  \/ InverseCheck
  \/ InverseMap
  \/ InverseDegrees
  \/ ThreadReturn

SpecThreads == ThreadsInit /\ [][ThreadsNext]_vars

-----------------------------------------------------------------------------
(* Properties of the conversions.                                          *)

Forward == call.fn = "lat_lon_to_utm"

Inverse == call.fn = "utm_to_lat_lon"

\* |a - b| <= 1e-6
WithinMicro(a, b) ==
  FLe([m |-> Abs(FSub(a, b).m), e |-> FSub(a, b).e], Dec(1, 1000000))

\* A latitude strictly between the poles and a longitude in [-180, 180].
ValidPoint(lat, lon) ==
  /\ FLt(FromInt(-90), lat) /\ FLt(lat, FromInt(90))
  /\ FLe(FromInt(-180), lon) /\ FLe(lon, FromInt(180))

\* easting and northing are the UTM coordinates of the Transverse Mercator
\* coordinates tm: scaled by 0.9996, easting moved by 500000, and northing
\* moved by 10000000 exactly when it is negative after the scaling.
Adjusted(tm, easting, northing) ==
  /\ easting = FAdd(FMul(tm.x, Dec(9996, 10000)), FromInt(500000))
  /\ northing =
       IF FLt(FMul(tm.y, Dec(9996, 10000)), Zero)
         THEN FAdd(FMul(tm.y, Dec(9996, 10000)), FromInt(10000000))
         ELSE FMul(tm.y, Dec(9996, 10000))

C2_AutoZoneOnWholeRange ==
  ( /\ Forward
    /\ call.zone = NULL /\ call.x # NULL /\ call.y # NULL
    /\ FLe(FromInt(-180), call.lon) /\ FLe(call.lon, FromInt(180)) )
  => /\ call.ret = AutoZone(call.lon)
     /\ call.ret \in 1 .. 60

\* C3: with a zone z in [1, 60] and both slots lat_lon_to_utm returns z,
\* whatever the latitude and the longitude; without a zone a successful
\* call returns the zone chosen from lon; a successful call returns a zone
\* in [1, 60].
C3_ReturnsResolvedZone ==
  Forward =>
    /\ ( call.zone # NULL /\ call.zone_val \in 1 .. 60
         /\ call.x # NULL /\ call.y # NULL ) => call.ret = call.zone_val
    /\ (call.zone = NULL /\ call.ret # -1) => call.ret = AutoZone(call.lon)
    /\ call.ret # -1 => call.ret \in 1 .. 60

\* lat_lon_to_utm returned the caller's zone 53 for a latitude of 135
\* degrees and a longitude far from that zone.
C3_Witness ==
  /\ Forward
  /\ call.zone # NULL /\ call.zone_val = 53
  /\ call.lat = FromInt(135) /\ call.lon = Zero
  /\ call.ret = 53

\* C4: utm_to_lat_lon returns -1 exactly when the lat or the lon slot is
\* null, and 0 otherwise, whatever the easting, the northing, the
\* hemisphere flag and the zone, zones outside [1, 60] included.
C4_InverseFailsOnlyOnNullSlot ==
  Inverse =>
    IF call.lat = NULL \/ call.lon = NULL THEN call.ret = -1
    ELSE call.ret = 0

\* utm_to_lat_lon was called with zone 61 and returned 0.
C4_Witness == Inverse /\ call.zone = 61 /\ call.ret = 0

\* C5: a call of lat_lon_to_utm or utm_to_lat_lon that returns -1 leaves
\* the caller's doubles as they were.
C5_NoPartialResults ==
  [][ (call'.fn \in {"lat_lon_to_utm", "utm_to_lat_lon"} /\ call'.ret = -1)
        => mem' = mem ]_vars

\* lat_lon_to_utm failed on the zone 0 with both slots to write to.
C5_Witness ==
  /\ Forward
  /\ call.zone # NULL /\ call.zone_val = 0
  /\ call.x # NULL /\ call.y # NULL
  /\ call.ret = -1

\* C6: after a successful lat_lon_to_utm, with (xTM, yTM) the Transverse
\* Mercator coordinates of (lat, lon) for the central meridian of the
\* returned zone, easting is 0.9996 * xTM + 500000, and northing is
\* 0.9996 * yTM + 10000000 if 0.9996 * yTM < 0 and 0.9996 * yTM otherwise.
C6_ForwardAdjustment ==
  (Forward /\ call.ret # -1) =>
    Adjusted(map_lat_lon_to_xy(deg_to_rad(call.lat), deg_to_rad(call.lon),
                               deg_to_rad(FromInt(-183 + 6 * call.ret))),
             mem["easting"], mem["northing"])

\* A point of the equator was converted: yTM is 0 and so is northing.
C6_Witness ==
  /\ Forward /\ call.ret # -1
  /\ call.lat = Zero
  /\ call.y_tm = Zero
  /\ mem["northing"] = Zero

\* C7: a successful utm_to_lat_lon gives map_xy_to_lat_lon
\* x = (easting - 500000) / 0.9996, y = (northing - 10000000) / 0.9996 if
\* the hemisphere flag is greater than zero and y = northing / 0.9996
\* otherwise, and the central meridian -183 + 6 * zone degrees.
C7_InverseAdjustment ==
  (Inverse /\ call.ret = 0) =>
    /\ call.x_tm = FDiv(FSub(call.x, FromInt(500000)), Dec(9996, 10000))
    /\ call.y_tm =
         IF call.southhemi > 0
           THEN FDiv(FSub(call.y, FromInt(10000000)), Dec(9996, 10000))
           ELSE FDiv(call.y, Dec(9996, 10000))
    /\ call.cmeridian = deg_to_rad(FromInt(-183 + 6 * call.zone))

\* utm_to_lat_lon converted a point with a hemisphere flag of 2.
C7_Witness == Inverse /\ call.ret = 0 /\ call.southhemi = 2

C9_RoundTrip ==
  /\ ( /\ Forward
       /\ call.zone = NULL /\ call.x # NULL /\ call.y # NULL
       /\ ValidPoint(call.lat, call.lon) )
     => call.ret # -1
  /\ ( /\ Inverse /\ prev.fn = "lat_lon_to_utm"
       /\ ValidPoint(prev.lat, prev.lon)
       /\ ((call.southhemi > 0) <=> FLt(prev.lat, Zero)) )
     => /\ WithinMicro(mem["lat"], prev.lat)
        /\ WithinMicro(mem["lon"], prev.lon)

\* C10: when lat_lon_to_utm succeeds for a longitude that is the central
\* meridian -183 + 6 * zone of the zone it returns, easting is exactly
\* 500000, whatever the latitude.
C10_CentralMeridianEasting ==
  (Forward /\ call.ret # -1 /\ call.lon = FromInt(-183 + 6 * call.ret))
    => mem["easting"] = FromInt(500000)

\* A point of latitude 45 on the central meridian of zone 60, the zone the
\* caller gave, was converted.
C10_Witness ==
  /\ Forward /\ call.ret = 60
  /\ call.zone # NULL
  /\ call.lat = FromInt(45) /\ call.lon = FromInt(177)

\* C12: lat_lon_to_utm checks x and y before anything else: with a null
\* easting or northing slot it returns -1 whatever the zone argument
\* (absent, in [1, 60] or outside) and whatever lat and lon, and has
\* neither set zone_ nor run map_lat_lon_to_xy, which stores through x
\* and y.
C12_NullSlotsCheckedFirst ==
  (Forward /\ (call.x = NULL \/ call.y = NULL)) =>
    /\ call.ret = -1
    /\ DOMAIN call \cap {"zone_", "x_tm", "y_tm"} = {}

\* lat_lon_to_utm was called with a null easting slot and the zone 61.
C12_Witness ==
  /\ Forward
  /\ call.x = NULL /\ call.y # NULL
  /\ call.zone # NULL /\ call.zone_val = 61
  /\ call.ret = -1

\* The zone of central meridian cm (in degrees) contains the longitude lon.
InZone(lon, cm) ==
  /\ FLe(FromInt(cm - 3), lon)
  /\ FLt(lon, FromInt(cm + 3))

\* C13, as stated: whenever lat_lon_to_utm succeeds with no zone supplied,
\* the central meridian cm = -183 + 6 * zone of the returned zone
\* satisfies cm - 3 <= lon < cm + 3 and lies in [-177, 177], and lon is
\* in [-180, 180).
C13_AutoZoneContainsPoint ==
  (Forward /\ call.zone = NULL /\ call.ret # -1) =>
    /\ InZone(call.lon, -183 + 6 * call.ret)
    /\ -183 + 6 * call.ret \in -177 .. 177
    /\ FLe(FromInt(-180), call.lon)
    /\ FLt(call.lon, FromInt(180))

\* C13, amended: whenever lat_lon_to_utm succeeds with no zone supplied,
\* the central meridian cm = -183 + 6 * zone of the returned zone
\* satisfies lon < cm + 3 and lies in [-177, 177], lon is in [-180, 180),
\* and the western edge of the zone is at or below the sum lon + 180.0 as
\* the double addition rounds it: 6 * (zone - 1) <= lon + 180.0.
C13_AutoZoneContainsRoundedPoint ==
  (Forward /\ call.zone = NULL /\ call.ret # -1) =>
    /\ FLe(FromInt(6 * (call.ret - 1)), FAdd(call.lon, FromInt(180)))
    /\ FLt(call.lon, FromInt(-183 + 6 * call.ret + 3))
    /\ -183 + 6 * call.ret \in -177 .. 177
    /\ FLe(FromInt(-180), call.lon)
    /\ FLt(call.lon, FromInt(180))

\* lat_lon_to_utm chose zone 31 for a longitude just west of Greenwich.
C13_Witness ==
  /\ Forward
  /\ call.zone = NULL
  /\ call.lon = JustWestOfGreenwich
  /\ call.ret = 31

\* Thread t has returned from fn.
ReturnedFrom(t, fn) == call[t].pc = "returned" /\ call[t].fn = fn

\* Thread t's return value and doubles are those of the result r.
AsAlone(t, r) == call[t].ret = r.ret /\ Own(t) = r.mem

\* C11: for threads calling lat_lon_to_utm and utm_to_lat_lon at the same
\* time, in any interleaving of their statements and after any earlier
\* calls, every call returns the value and leaves in its caller's doubles
\* what the same call with the same arguments gives when run alone; the
\* doubles of a thread that is in no call stay as its last call left them
\* and the doubles of no caller are never written.
C11_CallsAsIfAlone ==
  /\ \A t \in Threads :
       /\ call[t].pc = "idle" => Own(t) = prev[t]
       /\ ReturnedFrom(t, "lat_lon_to_utm") =>
            AsAlone(t, lat_lon_to_utm(call[t].lat, call[t].lon,
                                      call[t].zone, call[t].zone_val,
                                      call[t].x, call[t].y, prev[t]))
       /\ ReturnedFrom(t, "utm_to_lat_lon") =>
            AsAlone(t, utm_to_lat_lon(call[t].x, call[t].y, call[t].zone,
                                      call[t].southhemi, call[t].lat,
                                      call[t].lon, prev[t]))
  /\ \A c \in Cells : mem[<<0, c>>] = Junk(1)[c]

\* Thread 1 has returned from a successful lat_lon_to_utm that found the
\* result of an earlier call in its slots, while thread 2 is between the
\* statements of its own successful call.
C11_Witness ==
  /\ ReturnedFrom(1, "lat_lon_to_utm")
  /\ call[1].ret # -1
  /\ prev[1]["easting"] # Junk(1)["easting"]
  /\ Own(1) # prev[1]
  /\ call[2].pc \in {"easting", "northing", "degrees"}

=============================================================================
